---- MODULE Spec2Model ----
(***************************************************************************)
(* Stock-consistency subsystem (transactions/models.py: Purchase.save,     *)
(* Purchase.delete, Purchase._apply_stock_add), the dashboard aggregation *)
(* (store/views.py: dashboard) and the store views that update or delete   *)
(* items and deliveries (store/views.py: delete_item_ajax, Product- and    *)
(* Delivery- Update/Delete views).                                         *)
(*                                                                         *)
(* The database is a row-locking store at READ COMMITTED: a transaction's  *)
(* writes are pending until it commits, a written or SELECT ... FOR UPDATE *)
(* row stays locked until the transaction ends, and a statement that needs *)
(* a row locked by another transaction waits.  A deadlock is broken by     *)
(* aborting one of the waiting transactions.                               *)
(***************************************************************************)
EXTENDS Integers, FiniteSets, Sequences, TLC

\* ---------------------------------------------------------------- bounds
MaxQty == 2
MaxPrice == 1
MaxPk == 2
InitStock == 0
MaxExtern == 1
MaxOps == 3
MaxSales == 2
MaxAmount == 2
MaxDeliveries == 1
MaxDetails == 1
OpeningStock == 1

Items == {"A", "B"}
Txns == {"t1", "t2"}
Pks == 1..MaxPk
Qtys == 0..MaxQty
Prices == 1..MaxPrice

\* an optional value is the empty set (None) or a singleton
None == {}
Some(x) == {x}
The(s) == CHOOSE x \in s : TRUE
Opt(S) == {None} \cup {Some(x) : x \in S}

VARIABLES
    itemQty,    \* committed Item.quantity, per item
    purchases,  \* committed Purchase rows: pk -> row
    nextPk,     \* the primary-key sequence of Purchase
    pc,         \* per transaction: position in save()/delete()
    op,         \* per transaction: "none", "create", "update", "delete"
    inst,       \* per request: the in-memory Purchase instance (self)
    old,        \* per transaction: the row read by select_for_update (old)
    wItem,      \* per transaction: pending Item.quantity writes
    wPut,       \* per transaction: pending Purchase insert/update
    wDel,       \* per transaction: pending Purchase deletes
    lockI,      \* per transaction: Item rows it holds locked
    lockP,      \* per transaction: Purchase rows it holds locked
    itemRead,   \* per transaction: item.quantity as read by delete()
    delta,      \* per transaction: the stock deltas it asked for, per item
    result,     \* per transaction: outcome of its last operation, and the
                \* statement at which it failed
    dirty,      \* history, per transaction: its unfinished or failed
                \* operation has changed committed rows
    applied,    \* history: sum of the deltas of committed transactions
    extern,     \* history: stock removed from each item by item edits
    ops,        \* number of save()/delete() calls and of requests to the
                \* views that update or delete, made so far
    sales,      \* Sale rows, by id (sequence index)
    deliveries, \* Delivery rows: id -> row
    details,    \* SaleDetail rows, by id
    dash,       \* outcome of the last dashboard request
    nextDeliveryId, \* the primary-key sequence of Delivery
    itemRows,   \* the items that have a stored Item row
    resp        \* the response to the last request to a store view

pvars == <<itemQty, purchases, nextPk, pc, op, inst, old, wItem, wPut, wDel,
           lockI, lockP, itemRead, delta, result, dirty, applied, extern, ops>>
dvars == <<sales, deliveries, details, dash, nextDeliveryId>>
vvars == <<itemRows, resp>>
vars == <<pvars, dvars, vvars>>

EmptyFn == [x \in {} |-> 0]
ZeroDelta == [i \in Items |-> 0]

\* Python's `x or 0` on an optional number
OrZero(s) == IF s = None THEN 0 ELSE The(s)

Inst(t) == The(inst[t])
Old(t) == The(old[t])

\* ------------------------------------------------------ Purchase.save: total
TotalValueMutant(price, quantity) ==
    OrZero(price) * (IF OrZero(quantity) = 0 THEN 1 ELSE The(quantity))

\* self.total_value = (self.price or Decimal("0.00")) * (self.quantity or 0)
TotalValue(price, quantity) == OrZero(price) * OrZero(quantity)

\* ------------------------------------------------------ transaction scopes
SaveAtomicMutant == FALSE

\* `with transaction.atomic():` around the body of save()
SaveAtomic == TRUE

\* `with transaction.atomic():` around the body of delete()
DeleteAtomic == TRUE

InAtomic(o) == IF o = "delete" THEN DeleteAtomic ELSE SaveAtomic

\* ------------------------------------------------------ row locks
ItemLockedByOther(t, i) == \E u \in Txns \ {t} : i \in lockI[u]
PkLockedByOther(t, p) == \E u \in Txns \ {t} : p \in lockP[u]

\* the value of Item.quantity a statement of t sees after taking the row lock
CurItem(t, i) == IF i \in DOMAIN wItem[t] THEN wItem[t][i] ELSE itemQty[i]

ApplyItems(w) == [i \in Items |-> IF i \in DOMAIN w THEN w[i] ELSE itemQty[i]]
ApplyPurchases(put, del) ==
    [p \in (DOMAIN purchases \cup DOMAIN put) \ del |->
        IF p \in DOMAIN put THEN put[p] ELSE purchases[p]]

AddDelta(d, i, n) == [d EXCEPT ![i] = @ + n]
SumDelta(a, d) == [i \in Items |-> a[i] + d[i]]

\* One statement of transaction t leaves it with pending writes wi/put/del
\* and locks li/lp.  Inside atomic() they stay pending; outside, the
\* statement is committed at once (autocommit) and its locks are released.
Statement(t, o, wi, put, del, li, lp, d) ==
    IF InAtomic(o)
    THEN /\ wItem' = [wItem EXCEPT ![t] = wi]
         /\ wPut' = [wPut EXCEPT ![t] = put]
         /\ wDel' = [wDel EXCEPT ![t] = del]
         /\ lockI' = [lockI EXCEPT ![t] = li]
         /\ lockP' = [lockP EXCEPT ![t] = lp]
         /\ delta' = [delta EXCEPT ![t] = d]
         /\ dirty' = [dirty EXCEPT ![t] = pc[t] # "idle" /\ @]
         /\ UNCHANGED <<itemQty, purchases, applied>>
    ELSE /\ itemQty' = ApplyItems(wi)
         /\ dirty' = [dirty EXCEPT ![t] = (pc[t] # "idle" /\ @)
                                         \/ ApplyItems(wi) # itemQty
                                         \/ ApplyPurchases(put, del) # purchases]
         /\ purchases' = ApplyPurchases(put, del)
         /\ applied' = SumDelta(applied, d)
         /\ wItem' = [wItem EXCEPT ![t] = EmptyFn]
         /\ wPut' = [wPut EXCEPT ![t] = EmptyFn]
         /\ wDel' = [wDel EXCEPT ![t] = {}]
         /\ lockI' = [lockI EXCEPT ![t] = {}]
         /\ lockP' = [lockP EXCEPT ![t] = {}]
         /\ delta' = [delta EXCEPT ![t] = ZeroDelta]

Outcome(status, at) == [status |-> status, at |-> at]
NoOutcome == Outcome("none", "none")

\* leaving atomic() normally: COMMIT
CommitTxn(t) ==
    /\ itemQty' = ApplyItems(wItem[t])
    /\ purchases' = ApplyPurchases(wPut[t], wDel[t])
    /\ applied' = SumDelta(applied, delta[t])
    /\ wItem' = [wItem EXCEPT ![t] = EmptyFn]
    /\ wPut' = [wPut EXCEPT ![t] = EmptyFn]
    /\ wDel' = [wDel EXCEPT ![t] = {}]
    /\ lockI' = [lockI EXCEPT ![t] = {}]
    /\ lockP' = [lockP EXCEPT ![t] = {}]
    /\ delta' = [delta EXCEPT ![t] = ZeroDelta]
    /\ old' = [old EXCEPT ![t] = {}]
    /\ itemRead' = [itemRead EXCEPT ![t] = {}]
    /\ pc' = [pc EXCEPT ![t] = "idle"]
    /\ result' = [result EXCEPT ![t] = Outcome("ok", "commit")]
    /\ dirty' = [dirty EXCEPT ![t] = FALSE]

\* leaving atomic() with an exception: ROLLBACK, the exception propagates
RollbackTxn(t, err, at) ==
    /\ wItem' = [wItem EXCEPT ![t] = EmptyFn]
    /\ wPut' = [wPut EXCEPT ![t] = EmptyFn]
    /\ wDel' = [wDel EXCEPT ![t] = {}]
    /\ lockI' = [lockI EXCEPT ![t] = {}]
    /\ lockP' = [lockP EXCEPT ![t] = {}]
    /\ delta' = [delta EXCEPT ![t] = ZeroDelta]
    /\ old' = [old EXCEPT ![t] = {}]
    /\ itemRead' = [itemRead EXCEPT ![t] = {}]
    /\ pc' = [pc EXCEPT ![t] = "idle"]
    /\ result' = [result EXCEPT ![t] = Outcome(err, at)]
    /\ dirty' = [dirty EXCEPT ![t] = pc[t] # "idle" /\ @]
    /\ UNCHANGED <<itemQty, purchases, applied>>

\* ------------------------------------------------------ _apply_stock_add
\* Item.objects.filter(pk=item_id).update(quantity=F('quantity') + qty):
\* one UPDATE statement, which takes the row lock and adds to the value the
\* row then has; qty == 0 returns without touching the row.
ApplyStockAdd(t, i, qty) ==
    IF qty = 0
    THEN UNCHANGED <<itemQty, purchases, applied, wItem, wPut, wDel,
                     lockI, lockP, delta, dirty>>
    ELSE /\ ~ItemLockedByOther(t, i)
         /\ Statement(t, op[t],
                [j \in DOMAIN wItem[t] \cup {i} |->
                    IF j = i THEN CurItem(t, i) + qty ELSE wItem[t][j]],
                wPut[t], wDel[t], lockI[t] \cup {i}, lockP[t],
                AddDelta(delta[t], i, qty))

\* new_qty = int(self.quantity or 0)
NewQty(t) == OrZero(Inst(t).quantity)

OldQtyMutant(t) == OrZero(Inst(t).quantity)

\* old_qty = int(old.quantity or 0), old being the locked stored row
OldQty(t) == Old(t).quantity

\* the row super().save() writes for the instance
RowOf(r) == [item |-> r.item, quantity |-> The(r.quantity),
             price |-> The(r.price), total_value |-> r.total_value]

\* NOT NULL columns: quantity, price
Insertable(r) == r.quantity # None /\ r.price # None

\* ------------------------------------------------------ Purchase.save
\* Purchase(item=i, quantity=q, price=pr).save(), i being a stored item the
\* form offers: pk is None, so the row is inserted first (the INSERT sets
\* self.pk) and the stock is credited next.
SaveCreate(t, i, q, pr) ==
    /\ pc[t] = "idle"
    /\ i \in itemRows
    /\ nextPk <= MaxPk
    /\ ops < MaxOps
    /\ ops' = ops + 1
    /\ op' = [op EXCEPT ![t] = "create"]
    /\ LET r == [pk |-> None, item |-> i, quantity |-> q, price |-> pr,
                 total_value |-> TotalValue(pr, q)]
       IN  IF Insertable(r)
           THEN /\ inst' = [inst EXCEPT ![t] = {[r EXCEPT !.pk = Some(nextPk)]}]
                /\ nextPk' = nextPk + 1
                /\ Statement(t, "create", wItem[t],
                             [p \in {nextPk} |-> RowOf(r)], wDel[t],
                             lockI[t], lockP[t] \cup {nextPk}, delta[t])
                /\ pc' = [pc EXCEPT ![t] = "credit"]
                /\ result' = [result EXCEPT ![t] = NoOutcome]
                /\ UNCHANGED <<old, itemRead>>
           ELSE /\ inst' = [inst EXCEPT ![t] = {r}]
                /\ RollbackTxn(t, "IntegrityError", "insert")
                /\ UNCHANGED nextPk
    /\ UNCHANGED extern
    /\ UNCHANGED <<dvars, vvars>>

\* form.save() on a loaded instance: the fields are set from the form, the
\* total is recomputed, and the update branch of save() is entered.
SaveUpdate(t, i, q, pr) ==
    /\ pc[t] = "idle"
    /\ inst[t] # {}
    /\ op[t] = "none"
    /\ Inst(t).pk # None
    /\ i \in itemRows
    /\ ops < MaxOps
    /\ ops' = ops + 1
    /\ op' = [op EXCEPT ![t] = "update"]
    /\ inst' = [inst EXCEPT ![t] = {[pk |-> Inst(t).pk, item |-> i,
                    quantity |-> q, price |-> pr,
                    total_value |-> TotalValue(pr, q)]}]
    /\ pc' = [pc EXCEPT ![t] = "upd_lock"]
    /\ result' = [result EXCEPT ![t] = NoOutcome]
    /\ dirty' = [dirty EXCEPT ![t] = FALSE]
    /\ UNCHANGED <<itemQty, purchases, nextPk, old, wItem, wPut, wDel, lockI,
                   lockP, itemRead, delta, applied, extern>>
    /\ UNCHANGED <<dvars, vvars>>

UpdateSelectForUpdateMutant == FALSE

\* Purchase.objects.select_for_update(): the read of the old row locks it
UpdateSelectForUpdate == TRUE

\* old = Purchase.objects.select_for_update().get(pk=self.pk)
UpdLock(t) ==
    /\ pc[t] = "upd_lock"
    /\ LET p == The(Inst(t).pk)
       IN  IF p \notin DOMAIN purchases
           THEN RollbackTxn(t, "DoesNotExist", "upd_lock")
           ELSE /\ UpdateSelectForUpdate => ~PkLockedByOther(t, p)
                /\ old' = [old EXCEPT ![t] = {purchases[p]}]
                /\ Statement(t, op[t], wItem[t], wPut[t], wDel[t], lockI[t],
                             IF UpdateSelectForUpdate
                             THEN lockP[t] \cup {p} ELSE lockP[t], delta[t])
                /\ pc' = [pc EXCEPT ![t] =
                             IF purchases[p].item # Inst(t).item
                             THEN "debit" ELSE "persist"]
                /\ UNCHANGED <<itemRead, result>>
    /\ UNCHANGED <<nextPk, op, inst, extern, ops>>
    /\ UNCHANGED <<dvars, vvars>>

\* self._apply_stock_add(old.item_id, -old_qty)
Debit(t) ==
    /\ pc[t] = "debit"
    /\ ApplyStockAdd(t, Old(t).item, 0 - OldQty(t))
    /\ pc' = [pc EXCEPT ![t] = "persist"]
    /\ UNCHANGED <<nextPk, op, inst, old, itemRead, result, extern, ops>>
    /\ UNCHANGED <<dvars, vvars>>

\* super().save() of an existing row
Persist(t) ==
    /\ pc[t] = "persist"
    /\ LET p == The(Inst(t).pk)
       IN  IF Insertable(Inst(t))
           THEN /\ ~PkLockedByOther(t, p)
                /\ Statement(t, op[t], wItem[t],
                             [x \in {p} |-> RowOf(Inst(t))], wDel[t],
                             lockI[t], lockP[t] \cup {p}, delta[t])
                /\ pc' = [pc EXCEPT ![t] = "credit"]
                /\ UNCHANGED <<old, itemRead, result>>
           ELSE RollbackTxn(t, "IntegrityError", "persist")
    /\ UNCHANGED <<nextPk, op, inst, extern, ops>>
    /\ UNCHANGED <<dvars, vvars>>

CreditQtyMutant(t) == NewQty(t)

\* the quantity the last _apply_stock_add of save() adds to self.item_id
CreditQty(t) ==
    IF op[t] = "create" THEN NewQty(t)
    ELSE IF Old(t).item # Inst(t).item THEN NewQty(t)
    ELSE NewQty(t) - OldQty(t)

Credit(t) ==
    /\ pc[t] = "credit"
    /\ ApplyStockAdd(t, Inst(t).item, CreditQty(t))
    /\ pc' = [pc EXCEPT ![t] = "commit"]
    /\ UNCHANGED <<nextPk, op, inst, old, itemRead, result, extern, ops>>
    /\ UNCHANGED <<dvars, vvars>>

\* the end of the atomic block
Commit(t) ==
    /\ pc[t] = "commit"
    /\ CommitTxn(t)
    /\ UNCHANGED <<nextPk, op, inst, extern, ops>>
    /\ UNCHANGED <<dvars, vvars>>

\* ------------------------------------------------------ Purchase.delete
DeleteSelectForUpdateMutant == FALSE

\* Item.objects.select_for_update().get(pk=self.item_id): the read locks
DeleteSelectForUpdate == TRUE

WouldGoNegativeMutant(q, n) == q - n < 0 - 1

\* if item.quantity - int(self.quantity or 0) < 0: raise ValueError
WouldGoNegative(q, n) == q - n < 0

\* instance.delete() is called on a loaded instance
DelBegin(t) ==
    /\ pc[t] = "idle"
    /\ inst[t] # {}
    /\ op[t] = "none"
    /\ ops < MaxOps
    /\ ops' = ops + 1
    /\ op' = [op EXCEPT ![t] = "delete"]
    /\ pc' = [pc EXCEPT ![t] = "del_lock"]
    /\ result' = [result EXCEPT ![t] = NoOutcome]
    /\ dirty' = [dirty EXCEPT ![t] = FALSE]
    /\ UNCHANGED <<itemQty, purchases, nextPk, inst, old, wItem, wPut, wDel,
                   lockI, lockP, itemRead, delta, applied, extern>>
    /\ UNCHANGED <<dvars, vvars>>

\* the locked read of the item, Item.DoesNotExist when its row is gone, and
\* the check of the floor
DelRead(t) ==
    /\ pc[t] = "del_lock"
    /\ LET i == Inst(t).item
           n == OrZero(Inst(t).quantity)
       IN  /\ DeleteSelectForUpdate => ~ItemLockedByOther(t, i)
           /\ IF i \notin itemRows
              THEN RollbackTxn(t, "DoesNotExist", "del_lock")
              ELSE IF WouldGoNegative(CurItem(t, i), n)
              THEN RollbackTxn(t, "ValueError", "del_check")
              ELSE /\ itemRead' = [itemRead EXCEPT ![t] = Some(CurItem(t, i))]
                   /\ Statement(t, op[t], wItem[t], wPut[t], wDel[t],
                                IF DeleteSelectForUpdate
                                THEN lockI[t] \cup {i} ELSE lockI[t],
                                lockP[t], delta[t])
                   /\ pc' = [pc EXCEPT ![t] = "del_save"]
                   /\ UNCHANGED <<old, result>>
    /\ UNCHANGED <<nextPk, op, inst, extern, ops>>
    /\ UNCHANGED <<dvars, vvars>>

\* item.quantity = item.quantity - int(self.quantity or 0); item.save()
DelSave(t) ==
    /\ pc[t] = "del_save"
    /\ LET i == Inst(t).item
           n == OrZero(Inst(t).quantity)
       IN  /\ ~ItemLockedByOther(t, i)
           /\ Statement(t, op[t],
                  [j \in DOMAIN wItem[t] \cup {i} |->
                      IF j = i THEN The(itemRead[t]) - n ELSE wItem[t][j]],
                  wPut[t], wDel[t], lockI[t] \cup {i}, lockP[t],
                  AddDelta(delta[t], i, 0 - n))
    /\ pc' = [pc EXCEPT ![t] = "del_row"]
    /\ UNCHANGED <<nextPk, op, inst, old, itemRead, result, extern, ops>>
    /\ UNCHANGED <<dvars, vvars>>

\* super().delete(): refuses an instance without pk; otherwise DELETE ...
\* WHERE id = pk, which deletes no row when the row is gone, and then
\* sets self.pk to None
DelRow(t) ==
    /\ pc[t] = "del_row"
    /\ IF Inst(t).pk = None
       THEN /\ RollbackTxn(t, "ValueError", "del_row")
            /\ UNCHANGED inst
       ELSE LET p == The(Inst(t).pk)
            IN  /\ ~PkLockedByOther(t, p)
                /\ IF p \in DOMAIN purchases
                   THEN Statement(t, op[t], wItem[t], wPut[t],
                                  wDel[t] \cup {p}, lockI[t],
                                  lockP[t] \cup {p}, delta[t])
                   ELSE Statement(t, op[t], wItem[t], wPut[t], wDel[t],
                                  lockI[t], lockP[t], delta[t])
                /\ inst' = [inst EXCEPT ![t] = {[Inst(t) EXCEPT !.pk = None]}]
                /\ pc' = [pc EXCEPT ![t] = "commit"]
                /\ UNCHANGED <<old, itemRead, result>>
    /\ UNCHANGED <<nextPk, op, extern, ops>>
    /\ UNCHANGED <<dvars, vvars>>

\* ------------------------------------------------------ lock waits
\* the rows the next statement of t needs locked
NeedsItem(t) ==
    CASE pc[t] = "debit" -> IF OldQty(t) = 0 THEN {} ELSE {Old(t).item}
      [] pc[t] = "credit" -> IF CreditQty(t) = 0 THEN {} ELSE {Inst(t).item}
      [] pc[t] = "del_lock" ->
             IF DeleteSelectForUpdate THEN {Inst(t).item} ELSE {}
      [] pc[t] = "del_save" -> {Inst(t).item}
      [] OTHER -> {}

NeedsPk(t) ==
    CASE pc[t] = "upd_lock" ->
             IF UpdateSelectForUpdate
             THEN Inst(t).pk \cap DOMAIN purchases ELSE {}
      [] pc[t] = "persist" -> Inst(t).pk
      [] pc[t] = "del_row" -> Inst(t).pk
      [] OTHER -> {}

WaitsFor(t, u) ==
    /\ t # u
    /\ \/ NeedsItem(t) \cap lockI[u] # {}
       \/ NeedsPk(t) \cap lockP[u] # {}

Deadlocked(t) == \E u \in Txns : WaitsFor(t, u) /\ WaitsFor(u, t)

\* the database breaks a deadlock by failing the waiting statement of one
\* of the transactions; the exception leaves atomic(), which rolls back
DeadlockAbort(t) ==
    /\ Deadlocked(t)
    /\ RollbackTxn(t, "Deadlock", pc[t])
    /\ UNCHANGED <<nextPk, op, inst, extern, ops>>
    /\ UNCHANGED <<dvars, vvars>>

\* ------------------------------------------------------ callers
\* a request loads the stored purchase, Purchase.objects.get(pk=p), to
\* update or delete it; every request works on the instance it loaded
LoadInstance(t, p) ==
    /\ pc[t] = "idle"
    /\ p \in DOMAIN purchases
    /\ op' = [op EXCEPT ![t] = "none"]
    /\ result' = [result EXCEPT ![t] = NoOutcome]
    /\ dirty' = [dirty EXCEPT ![t] = FALSE]
    /\ inst' = [inst EXCEPT ![t] = {[pk |-> Some(p),
                    item |-> purchases[p].item,
                    quantity |-> Some(purchases[p].quantity),
                    price |-> Some(purchases[p].price),
                    total_value |-> purchases[p].total_value]}]
    /\ UNCHANGED <<itemQty, purchases, nextPk, pc, old, wItem, wPut, wDel,
                   lockI, lockP, itemRead, delta, applied, extern, ops>>
    /\ UNCHANGED <<dvars, vvars>>

\* ProductUpdateView: an item edit that lowers the stock by one (as a sale
\* or a correction does); the UPDATE waits for the row lock, and the form's
\* read of the item and its write are taken as one step
ItemEdit(i) ==
    /\ \A t \in Txns : i \notin lockI[t]
    /\ itemQty[i] > 0
    /\ extern[i] < MaxExtern
    /\ itemQty' = [itemQty EXCEPT ![i] = @ - 1]
    /\ extern' = [extern EXCEPT ![i] = @ + 1]
    /\ UNCHANGED <<purchases, nextPk, pc, op, inst, old, wItem, wPut, wDel,
                   lockI, lockP, itemRead, delta, result, dirty, applied,
                   ops>>
    /\ UNCHANGED <<dvars, vvars>>

\* ------------------------------------------------------ specification
PNext ==
    \/ \E t \in Txns, i \in Items, q \in Opt(Qtys), pr \in Opt(Prices) :
           SaveCreate(t, i, q, pr)
    \/ \E t \in Txns, i \in Items, q \in Opt(Qtys), pr \in Opt(Prices) :
           SaveUpdate(t, i, q, pr)
    \/ \E t \in Txns : UpdLock(t)
    \/ \E t \in Txns : Debit(t)
    \/ \E t \in Txns : Persist(t)
    \/ \E t \in Txns : Credit(t)
    \/ \E t \in Txns : Commit(t)
    \/ \E t \in Txns : DelBegin(t)
    \/ \E t \in Txns : DelRead(t)
    \/ \E t \in Txns : DelSave(t)
    \/ \E t \in Txns : DelRow(t)
    \/ \E t \in Txns : DeadlockAbort(t)
    \/ \E t \in Txns, p \in Pks : LoadInstance(t, p)
    \/ \E i \in Items : ItemEdit(i)

\* ------------------------------------------------------ callers of the views
\* request.user: AnonymousUser, or a logged-in user with its two flags
Anonymous ==
    [is_authenticated |-> FALSE, is_staff |-> FALSE, is_superuser |-> FALSE]
Callers ==
    {Anonymous} \cup
    {[is_authenticated |-> TRUE, is_staff |-> s, is_superuser |-> u] :
        s \in BOOLEAN, u \in BOOLEAN}
\* a logged-in user who is neither staff nor superuser
LoggedIn ==
    [is_authenticated |-> TRUE, is_staff |-> FALSE, is_superuser |-> FALSE]

\* the response of a view to a caller: HTTP status and, for the JSON
\* endpoint, the 'error' text ("" when the body carries none)
Response(view, caller, status, error) ==
    [view |-> view, caller |-> caller, status |-> status, error |-> error]
NoResponse == Response("none", Anonymous, 0, "")

\* ------------------------------------------------------ dashboard data
\* dates <<year, month, day>>: two days of one month and a day of the next
\* month, across a year boundary
Dates == {<<2024, 12, 1>>, <<2024, 12, 2>>, <<2025, 1, 1>>}

DateLess(a, b) ==
    \/ a[1] < b[1]
    \/ a[1] = b[1] /\ a[2] < b[2]
    \/ a[1] = b[1] /\ a[2] = b[2] /\ a[3] < b[3]
DateLeq(a, b) == a = b \/ DateLess(a, b)

\* the fields of Sale: Sale._meta.get_fields()
SaleFieldNames ==
    {"id", "date_added", "customer", "sub_total", "grand_total",
     "tax_amount", "tax_percentage", "amount_paid", "amount_change",
     "saledetail_set"}

\* the fields of Item the inventory cost uses (ItemForm.Meta.fields)
ItemFieldNames ==
    {"id", "name", "description", "category", "quantity", "price",
     "expiring_date", "vendor", "image"}

\* Item.price of the two items
ItemPrice == [i \in Items |-> IF i = "A" THEN 1 ELSE 2]

SaleIds == 1..Len(sales)
DeliveryIds == DOMAIN deliveries
DetailIds == 1..Len(details)

RECURSIVE SumOver(_, _)
SumOver(S, f) ==
    IF S = {} THEN 0
    ELSE LET x == CHOOSE y \in S : TRUE IN f[x] + SumOver(S \ {x}, f)

\* SQL SUM: NULL over no rows
SqlSum(S, f) == IF S = {} THEN None ELSE Some(SumOver(S, f))
\* Coalesce(x, d)
Coalesce(o, d) == IF o = None THEN d ELSE The(o)

\* TruncMonth: the first day of the date's month
TruncMonth(d) == <<d[1], d[2], 1>>
\* month.strftime('%Y-%m'): year and zero-padded month
StrfYm(d) == <<d[1], d[2]>>

\* the sequences that list the members of S once each, keys ascending
\* (ORDER BY key; rows with equal keys come in any order)
AscendingBy(S, key) ==
    {q \in [1..Cardinality(S) -> S] :
        /\ \A a, b \in 1..Cardinality(S) : a # b => q[a] # q[b]
        /\ \A a, b \in 1..Cardinality(S) :
              a < b => DateLeq(key[q[a]], key[q[b]])}
DescendingBy(S, key) ==
    {q \in [1..Cardinality(S) -> S] :
        /\ \A a, b \in 1..Cardinality(S) : a # b => q[a] # q[b]
        /\ \A a, b \in 1..Cardinality(S) :
              a < b => DateLeq(key[q[b]], key[q[a]])}

RecentLimit == 10
\* queryset[:10]
Limit(q) == IF Len(q) <= RecentLimit THEN q ELSE SubSeq(q, 1, RecentLimit)

\* ------------------------------------------------------ dashboard
\* payment_field: 'amount_paid', else 'paid_amount', else None
PaymentField(fields) ==
    IF "amount_paid" \in fields THEN Some("amount_paid")
    ELSE IF "paid_amount" \in fields THEN Some("paid_amount")
    ELSE None

\* paid_sales_qs: the first classification signal the schema offers
PaidSaleIds(fields) ==
    IF "is_paid" \in fields
    THEN {k \in SaleIds : sales[k]["is_paid"] = TRUE}
    ELSE IF "is_fully_paid" \in fields
    THEN {k \in SaleIds : sales[k]["is_fully_paid"] = TRUE}
    ELSE IF "payment_status" \in fields
    THEN {k \in SaleIds : sales[k]["payment_status"]
                             \in {"paid", "PAID", "completed", "COMPLETED"}}
    ELSE IF PaymentField(fields) # None /\ "grand_total" \in fields
    THEN {k \in SaleIds :
             sales[k][The(PaymentField(fields))] >= sales[k]["grand_total"]}
    ELSE IF "balance_due" \in fields
    THEN {k \in SaleIds : sales[k]["balance_due"] <= 0}
    ELSE SaleIds

Column(name) == [k \in SaleIds |-> sales[k][name]]

TotalRevenueValMutant(fields) ==
    Coalesce(SqlSum(PaidSaleIds(fields), Column("grand_total")), 0)

\* total_revenue_val: the payment field summed over all sales, or the
\* grand_total of the paid sales when the schema has no payment field
TotalRevenueVal(fields) ==
    IF PaymentField(fields) # None
    THEN Coalesce(SqlSum(SaleIds, Column(The(PaymentField(fields)))), 0)
    ELSE Coalesce(SqlSum(PaidSaleIds(fields), Column("grand_total")), 0)

SeriesBaseMutant(fields) == PaidSaleIds(fields)

\* the queryset sales_by_month_qs groups: all sales, or the paid sales
SeriesBase(fields) ==
    IF PaymentField(fields) # None THEN SaleIds ELSE PaidSaleIds(fields)

\* the column sales_by_month_qs sums
SeriesColumn(fields) ==
    IF PaymentField(fields) # None THEN The(PaymentField(fields))
    ELSE "grand_total"

\* .annotate(month=TruncMonth(date)).values('month').annotate(...)
\* .order_by('month'): one row per month of the base rows, ascending
MonthsOf(S, date) == {TruncMonth(date[k]) : k \in S}
MonthRows(S, date) ==
    CHOOSE q \in AscendingBy(MonthsOf(S, date),
                             [m \in MonthsOf(S, date) |-> m]) : TRUE

SaleDate == [k \in SaleIds |-> sales[k].date_added]
DeliveryDate == [k \in DeliveryIds |-> deliveries[k].date]

SalesByMonth(fields) ==
    LET B == SeriesBase(fields)
        rows == MonthRows(B, SaleDate)
    IN  [n \in 1..Len(rows) |->
            LET G == {k \in B : TruncMonth(SaleDate[k]) = rows[n]}
            IN  [month |-> rows[n],
                 revenue |-> Coalesce(SqlSum(G, Column(SeriesColumn(fields))), 0),
                 count |-> Cardinality(G)]]

\* sales_dates, sales_values, sales_counts
SalesSeries(fields) ==
    LET q == SalesByMonth(fields)
    IN  [sales_dates |-> [n \in 1..Len(q) |-> StrfYm(q[n].month)],
         sales_values |-> [n \in 1..Len(q) |-> q[n].revenue],
         sales_counts |-> [n \in 1..Len(q) |-> q[n].count]]

\* deliveries_total, deliveries_by_status
DeliveryCounts ==
    [deliveries_total |-> Cardinality(DeliveryIds),
     Delivered |-> Cardinality({k \in DeliveryIds : deliveries[k].is_delivered}),
     Pending |-> Cardinality({k \in DeliveryIds : ~deliveries[k].is_delivered})]

\* delivery_months, delivery_counts
DeliverySeries ==
    LET rows == MonthRows(DeliveryIds, DeliveryDate)
    IN  [delivery_months |-> [n \in 1..Len(rows) |-> StrfYm(rows[n])],
         delivery_counts |-> [n \in 1..Len(rows) |->
             Cardinality({k \in DeliveryIds :
                             TruncMonth(DeliveryDate[k]) = rows[n]})]]

\* recent_deliveries: Delivery.objects.order_by('-date')[:10], serialized
RecentDeliveries ==
    {[n \in 1..Len(Limit(q)) |->
         [id |-> q[n],
          date |-> deliveries[q[n]].date,
          status_label |-> IF deliveries[q[n]].is_delivered
                           THEN "Delivered" ELSE "Pending"]] :
     q \in DescendingBy(DeliveryIds, DeliveryDate)}

\* paid_val of a recent sale: s.get(payment_field) or 0
PaidVal(fields, k) ==
    IF PaymentField(fields) # None
    THEN sales[k][The(PaymentField(fields))] ELSE 0

\* text is a sequence of characters; str.strip() drops the blanks at both
\* ends
RECURSIVE Strip(_)
Strip(x) ==
    IF x = <<>> THEN x
    ELSE IF Head(x) = " " THEN Strip(Tail(x))
    ELSE IF x[Len(x)] = " " THEN Strip(SubSeq(x, 1, Len(x) - 1))
    ELSE x

\* Python's `a or b` on texts: a unless it is empty
OrText(a, b) == IF a # <<>> THEN a ELSE b

\* customer_label of a recent sale: the stripped "first last" when either
\* name is non-empty, or else the phone, or else "Sale #<id>"
CustomerLabel(k) ==
    LET c == sales[k].customer
        cust_name ==
            IF c.first_name # <<>> \/ c.last_name # <<>>
            THEN Strip(Strip(c.first_name) \o <<" ">> \o Strip(c.last_name))
            ELSE <<>>
    IN  OrText(cust_name, OrText(c.phone, <<"Sale #", k>>))

\* recent_sales: paid_sales_qs.order_by('-date_added')[:10], serialized
RecentSales(fields) ==
    {[n \in 1..Len(Limit(q)) |->
         [id |-> q[n],
          date_added |-> sales[q[n]].date_added,
          grand_total |-> sales[q[n]].grand_total,
          paid_amount |-> PaidVal(fields, q[n]),
          balance_due |-> sales[q[n]].grand_total - PaidVal(fields, q[n]),
          customer__phone |-> sales[q[n]].customer.phone,
          customer_label |-> CustomerLabel(q[n])]] :
     q \in DescendingBy(PaidSaleIds(fields),
                        [k \in PaidSaleIds(fields) |-> SaleDate[k]])}

\* top_items: SaleDetail rows of paid sales grouped by item, Sum(quantity),
\* largest first, at most 10
TopItems(fields) ==
    LET D == {k \in DetailIds : details[k].sale \in PaidSaleIds(fields)}
        I == {details[k].item : k \in D}
        tot == [i \in I |->
                   SumOver({k \in D : details[k].item = i},
                           [k \in DetailIds |-> details[k].quantity])]
    IN  {Limit([n \in 1..Cardinality(I) |-> [id |-> q[n], qty |-> tot[q[n]]]]) :
         q \in {r \in [1..Cardinality(I) -> I] :
                  /\ \A a, b \in 1..Cardinality(I) : a # b => r[a] # r[b]
                  /\ \A a, b \in 1..Cardinality(I) :
                        a < b => tot[r[a]] >= tot[r[b]]}}

\* compute_total_inventory_cost: SUM(quantity * cost field), the cost field
\* being the first candidate the Item model has, else 'price', else none
CostField(fields) ==
    LET cands == <<"cost_price", "purchase_price", "cost", "unit_cost",
                   "buy_price", "purchase_cost">>
        hits == {n \in 1..Len(cands) : cands[n] \in fields}
    IN  IF hits # {} THEN Some(cands[CHOOSE n \in hits : \A m \in hits : n <= m])
        ELSE IF "price" \in fields THEN Some("price")
        ELSE None

InventoryCostOf(rows, fields) ==
    IF CostField(fields) = None THEN 0
    ELSE Coalesce(SqlSum(rows, [i \in Items |-> itemQty[i] * ItemPrice[i]]), 0)

InventoryCost(fields) == InventoryCostOf(itemRows, fields)

\* compute_total_purchase_cost: SUM(total_value) over all purchases
PurchaseCost ==
    Coalesce(SqlSum(DOMAIN purchases,
                    [p \in DOMAIN purchases |-> purchases[p].total_value]), 0)

\* the aggregates of the summary, in the order their queries run
Aggregates ==
    <<"revenue", "delivery_counts", "recent_deliveries", "sales_series",
      "delivery_series", "recent_sales", "top_items", "inventory_cost",
      "purchase_cost">>
AggregateNames == {Aggregates[n] : n \in 1..Len(Aggregates)}

\* the aggregates computed inside try/except: top_items, and the body of
\* compute_total_purchase_cost
GuardedAggregates == {"top_items", "purchase_cost"}

NotComputed == [status |-> "none", fault |-> "none"]

\* dashboard(request) while the queries of aggregate f fail (f = "none": no
\* query fails).  An exception outside a try block leaves the view: the
\* request fails and no summary is rendered.  A guarded aggregate falls
\* back to [] (top_items) or Decimal('0') (purchase cost).
Dashboard(f) ==
    /\ \A t \in Txns : pc[t] = "idle"
    /\ IF f \in AggregateNames \ GuardedAggregates
       THEN dash' = [status |-> "error", fault |-> f]
       ELSE \E rd \in RecentDeliveries, rs \in RecentSales(SaleFieldNames),
               ti \in TopItems(SaleFieldNames) :
               dash' = [status |-> "ok", fault |-> f,
                        revenue |-> TotalRevenueVal(SaleFieldNames),
                        delivery_counts |-> DeliveryCounts,
                        recent_deliveries |-> rd,
                        sales_series |-> SalesSeries(SaleFieldNames),
                        delivery_series |-> DeliverySeries,
                        recent_sales |-> rs,
                        top_items |-> IF f = "top_items" THEN <<>> ELSE ti,
                        inventory_cost |-> InventoryCost(ItemFieldNames),
                        purchase_cost |-> IF f = "purchase_cost" THEN 0
                                          ELSE PurchaseCost]
    /\ UNCHANGED <<pvars, sales, deliveries, details, nextDeliveryId, vvars>>

\* the first name, last name and phone of a customer: named, named with a
\* phone, a blank first name with a phone, a phone only, and neither
Customer(first, last, phone) ==
    [first_name |-> first, last_name |-> last, phone |-> phone]
WalkIn == Customer(<<>>, <<>>, <<>>)
Customers ==
    {Customer(<<"a">>, <<"b">>, <<>>), Customer(<<"a", " ">>, <<>>, <<"7">>),
     Customer(<<" ">>, <<>>, <<"7">>), Customer(<<>>, <<>>, <<"7">>), WalkIn}

\* a sale to customer cu is recorded; date_added is auto_now_add, so sales
\* are dated in the order they are created; ap is the amount received so far
SaleCreate(d, gt, ap, cu) ==
    /\ Len(sales) < MaxSales
    /\ Len(sales) > 0 => DateLeq(sales[Len(sales)].date_added, d)
    /\ sales' = Append(sales, [date_added |-> d, grand_total |-> gt,
                               amount_paid |-> ap, customer |-> cu])
    /\ dash' = NotComputed
    /\ UNCHANGED <<pvars, deliveries, details, nextDeliveryId, vvars>>

\* DeliveryCreateView: the form is saved as a new row
DeliveryCreate(d, b) ==
    /\ nextDeliveryId <= MaxDeliveries
    /\ deliveries' = [k \in DeliveryIds \cup {nextDeliveryId} |->
                         IF k = nextDeliveryId
                         THEN [date |-> d, is_delivered |-> b]
                         ELSE deliveries[k]]
    /\ nextDeliveryId' = nextDeliveryId + 1
    /\ dash' = NotComputed
    /\ resp' = Response("DeliveryCreateView", LoggedIn, 302, "")
    /\ UNCHANGED <<pvars, sales, details, itemRows>>

\* a line of a recorded sale
SaleDetailCreate(s, i, q) ==
    /\ Len(details) < MaxDetails
    /\ s \in SaleIds
    /\ details' = Append(details, [sale |-> s, item |-> i, quantity |-> q])
    /\ dash' = NotComputed
    /\ UNCHANGED <<pvars, sales, deliveries, nextDeliveryId, vvars>>

DNext ==
    \/ \E f \in AggregateNames \cup {"none"} : Dashboard(f)
    \/ \E d \in Dates, ap \in 0..MaxAmount :
           SaleCreate(d, MaxAmount, ap, WalkIn)
    \/ \E d \in Dates, b \in BOOLEAN : DeliveryCreate(d, b)
    \/ \E s \in 1..MaxSales, i \in Items, q \in 1..MaxQty :
           SaleDetailCreate(s, i, q)

\* ------------------------------------------------------ store views
\* LoginRequiredMixin: an anonymous caller is redirected to the login page
\* (302); UserPassesTestMixin with test_func: a logged-in caller who fails
\* the test is refused (403)
LoginRequired(c) == IF c.is_authenticated THEN "pass" ELSE "redirect"
UserPassesTest(c, passes) ==
    IF ~c.is_authenticated THEN "redirect"
    ELSE IF passes THEN "pass" ELSE "forbidden"
Refusal(view, c, gate) ==
    Response(view, c, IF gate = "redirect" THEN 302 ELSE 403, "")

\* get_object_or_404(Item, pk=i): the item, or the exception Http404
GetObjectOr404(i) == IF i \in itemRows THEN "found" ELSE "Http404"

\* Item.delete(): Purchase.item is on_delete=CASCADE, SaleDetail.item is
\* on_delete=DO_NOTHING, so a referenced item cannot be deleted
ItemDeleteOutcome(i) ==
    IF \E k \in DetailIds : details[k].item = i THEN "IntegrityError"
    ELSE "deleted"
PurchasesWithout(i) ==
    [p \in {x \in DOMAIN purchases : purchases[x].item # i} |-> purchases[p]]

\* the except clauses of delete_item_ajax: Item.DoesNotExist is answered
\* with 404 'Item not found', every other exception with 500 and its text
AjaxHandler(c, exc) ==
    IF exc = "DoesNotExist"
    THEN Response("delete_item_ajax", c, 404, "Item not found")
    ELSE Response("delete_item_ajax", c, 500, exc)

\* delete_item_ajax(request), POST id = i (None: no id posted).  The delete
\* waits for the rows it removes and is taken while no purchase transaction
\* is open.
DeleteItemAjax(c, i) ==
    /\ \A t \in Txns : pc[t] = "idle"
    /\ ops < MaxOps
    /\ ops' = ops + 1
    /\ IF ~c.is_authenticated \/ ~c.is_staff
       THEN /\ resp' = Response("delete_item_ajax", c, 403, "Permission denied")
            /\ UNCHANGED <<itemRows, purchases>>
       ELSE IF i = None
       THEN /\ resp' = Response("delete_item_ajax", c, 400, "Missing item id")
            /\ UNCHANGED <<itemRows, purchases>>
       ELSE IF GetObjectOr404(The(i)) # "found"
       THEN /\ resp' = AjaxHandler(c, GetObjectOr404(The(i)))
            /\ UNCHANGED <<itemRows, purchases>>
       ELSE IF ItemDeleteOutcome(The(i)) # "deleted"
       THEN /\ resp' = AjaxHandler(c, ItemDeleteOutcome(The(i)))
            /\ UNCHANGED <<itemRows, purchases>>
       ELSE /\ resp' = Response("delete_item_ajax", c, 200, "")
            /\ itemRows' = itemRows \ {The(i)}
            /\ purchases' = PurchasesWithout(The(i))
    /\ UNCHANGED <<itemQty, nextPk, pc, op, inst, old, wItem, wPut, wDel, lockI,
                   lockP, itemRead, delta, result, dirty, applied, extern>>
    /\ UNCHANGED dvars

\* ProductUpdateView (superuser only): the posted form lowers the quantity
\* of item i by one
ProductUpdate(c, i) ==
    /\ \A t \in Txns : pc[t] = "idle"
    /\ ops < MaxOps
    /\ ops' = ops + 1
    /\ LET gate == UserPassesTest(c, c.is_superuser)
       IN  IF gate # "pass"
           THEN /\ resp' = Refusal("ProductUpdateView", c, gate)
                /\ UNCHANGED <<itemQty, extern>>
           ELSE IF GetObjectOr404(i) # "found"
           THEN /\ resp' = Response("ProductUpdateView", c, 404, "")
                /\ UNCHANGED <<itemQty, extern>>
           ELSE /\ itemQty[i] > 0
                /\ extern[i] < MaxExtern
                /\ itemQty' = [itemQty EXCEPT ![i] = @ - 1]
                /\ extern' = [extern EXCEPT ![i] = @ + 1]
                /\ resp' = Response("ProductUpdateView", c, 302, "")
    /\ UNCHANGED <<purchases, nextPk, pc, op, inst, old, wItem, wPut, wDel,
                   lockI, lockP, itemRead, delta, result, dirty, applied,
                   itemRows>>
    /\ UNCHANGED dvars

\* ProductDeleteView (superuser only)
ProductDelete(c, i) ==
    /\ \A t \in Txns : pc[t] = "idle"
    /\ ops < MaxOps
    /\ ops' = ops + 1
    /\ LET gate == UserPassesTest(c, c.is_superuser)
       IN  IF gate # "pass"
           THEN /\ resp' = Refusal("ProductDeleteView", c, gate)
                /\ UNCHANGED <<itemRows, purchases>>
           ELSE IF GetObjectOr404(i) # "found"
           THEN /\ resp' = Response("ProductDeleteView", c, 404, "")
                /\ UNCHANGED <<itemRows, purchases>>
           ELSE IF ItemDeleteOutcome(i) # "deleted"
           THEN /\ resp' = Response("ProductDeleteView", c, 500, "")
                /\ UNCHANGED <<itemRows, purchases>>
           ELSE /\ resp' = Response("ProductDeleteView", c, 302, "")
                /\ itemRows' = itemRows \ {i}
                /\ purchases' = PurchasesWithout(i)
    /\ UNCHANGED <<itemQty, nextPk, pc, op, inst, old, wItem, wPut, wDel, lockI,
                   lockP, itemRead, delta, result, dirty, applied, extern>>
    /\ UNCHANGED dvars

\* DeliveryUpdateView (LoginRequiredMixin only): the posted form is saved
\* over row k
DeliveryUpdate(c, k, d, b) ==
    /\ ops < MaxOps
    /\ ops' = ops + 1
    /\ IF LoginRequired(c) # "pass"
       THEN /\ resp' = Refusal("DeliveryUpdateView", c, LoginRequired(c))
            /\ UNCHANGED <<deliveries, dash>>
       ELSE IF k \notin DeliveryIds
       THEN /\ resp' = Response("DeliveryUpdateView", c, 404, "")
            /\ UNCHANGED <<deliveries, dash>>
       ELSE /\ deliveries' = [deliveries EXCEPT
                                 ![k] = [date |-> d, is_delivered |-> b]]
            /\ dash' = NotComputed
            /\ resp' = Response("DeliveryUpdateView", c, 302, "")
    /\ UNCHANGED <<itemQty, purchases, nextPk, pc, op, inst, old, wItem, wPut,
                   wDel, lockI, lockP, itemRead, delta, result, dirty, applied,
                   extern>>
    /\ UNCHANGED <<sales, details, nextDeliveryId, itemRows>>

\* DeliveryDeleteView (superuser only)
DeliveryDelete(c, k) ==
    /\ ops < MaxOps
    /\ ops' = ops + 1
    /\ LET gate == UserPassesTest(c, c.is_superuser)
       IN  IF gate # "pass"
           THEN /\ resp' = Refusal("DeliveryDeleteView", c, gate)
                /\ UNCHANGED <<deliveries, dash>>
           ELSE IF k \notin DeliveryIds
           THEN /\ resp' = Response("DeliveryDeleteView", c, 404, "")
                /\ UNCHANGED <<deliveries, dash>>
           ELSE /\ deliveries' = [x \in DeliveryIds \ {k} |-> deliveries[x]]
                /\ dash' = NotComputed
                /\ resp' = Response("DeliveryDeleteView", c, 302, "")
    /\ UNCHANGED <<itemQty, purchases, nextPk, pc, op, inst, old, wItem, wPut,
                   wDel, lockI, lockP, itemRead, delta, result, dirty, applied,
                   extern>>
    /\ UNCHANGED <<sales, details, nextDeliveryId, itemRows>>

\* requests to the store views, and one request at a time that updates or
\* deletes a purchase it loaded
Worker == {"t1"}
VNext ==
    \/ \E c \in Callers, i \in Opt(Items) : DeleteItemAjax(c, i)
    \/ \E c \in Callers, i \in Items : ProductUpdate(c, i)
    \/ \E c \in Callers, i \in Items : ProductDelete(c, i)
    \/ \E c \in Callers, k \in 1..MaxDeliveries, d \in Dates, b \in BOOLEAN :
           DeliveryUpdate(c, k, d, b)
    \/ \E c \in Callers, k \in 1..MaxDeliveries : DeliveryDelete(c, k)
    \/ \E d \in Dates, b \in BOOLEAN : DeliveryCreate(d, b)
    \/ \E t \in Worker, p \in Pks : LoadInstance(t, p)
    \/ \E t \in Worker, i \in Items, q \in Opt(Qtys), pr \in Opt(Prices) :
           SaveUpdate(t, i, q, pr)
    \/ \E t \in Worker : UpdLock(t)
    \/ \E t \in Worker : Debit(t)
    \/ \E t \in Worker : Persist(t)
    \/ \E t \in Worker : Credit(t)
    \/ \E t \in Worker : Commit(t)
    \/ \E t \in Worker : DelBegin(t)
    \/ \E t \in Worker : DelRead(t)
    \/ \E t \in Worker : DelSave(t)
    \/ \E t \in Worker : DelRow(t)

\* dashboard requests over sales to the different customers, each sale
\* unpaid or paid in full
RNext ==
    \/ \E f \in AggregateNames \cup {"none"} : Dashboard(f)
    \/ \E d \in Dates, ap \in {0, MaxAmount}, cu \in Customers :
           SaleCreate(d, MaxAmount, ap, cu)

\* ------------------------------------------------------ classification
\* the fields of a Sale model that paid_sales_qs looks for
SignalFields ==
    {"is_paid", "is_fully_paid", "payment_status", "amount_paid",
     "paid_amount", "grand_total", "balance_due"}
\* values of a payment_status column, in several letter cases
Statuses ==
    {"paid", "PAID", "Paid", "completed", "COMPLETED", "Completed",
     "pending"}
\* Sale rows that carry a value for every field a schema may have
FullSaleRows ==
    [date_added : {<<2024, 12, 1>>}, customer : {WalkIn},
     grand_total : {MaxAmount},
     amount_paid : 0..MaxAmount, paid_amount : 0..MaxAmount,
     is_paid : BOOLEAN, is_fully_paid : BOOLEAN,
     payment_status : Statuses, balance_due : {0 - 1, 0, 1}]

\* the part of dashboard(request) that builds paid_sales_qs, for a Sale
\* model whose field names are `fields`
Classify(fields) ==
    /\ dash' = [status |-> "classified", fields |-> fields,
                paid |-> PaidSaleIds(fields)]
    /\ UNCHANGED <<pvars, sales, deliveries, details, nextDeliveryId, vvars>>

CNext == \E fields \in SUBSET SignalFields : Classify(fields)

\* a fresh installation: every item at its initial stock, no purchase, sale
\* or delivery
Init ==
    /\ itemQty = [i \in Items |-> InitStock]
    /\ purchases = EmptyFn
    /\ nextPk = 1
    /\ pc = [t \in Txns |-> "idle"]
    /\ op = [t \in Txns |-> "none"]
    /\ inst = [t \in Txns |-> {}]
    /\ old = [t \in Txns |-> {}]
    /\ wItem = [t \in Txns |-> EmptyFn]
    /\ wPut = [t \in Txns |-> EmptyFn]
    /\ wDel = [t \in Txns |-> {}]
    /\ lockI = [t \in Txns |-> {}]
    /\ lockP = [t \in Txns |-> {}]
    /\ itemRead = [t \in Txns |-> {}]
    /\ delta = [t \in Txns |-> ZeroDelta]
    /\ result = [t \in Txns |-> NoOutcome]
    /\ dirty = [t \in Txns |-> FALSE]
    /\ applied = ZeroDelta
    /\ extern = ZeroDelta
    /\ ops = 0
    /\ sales = <<>>
    /\ deliveries = EmptyFn
    /\ details = <<>>
    /\ dash = NotComputed
    /\ nextDeliveryId = 1
    /\ itemRows = Items
    /\ resp = NoResponse

\* purchase transactions on an installation whose dashboard is not requested
Spec == Init /\ [][PNext]_vars

\* an installation whose items were created with a stock of their own
\* (ItemForm has a quantity field), before any purchase
OpeningInit ==
    /\ itemQty = [i \in Items |-> OpeningStock]
    /\ purchases = EmptyFn
    /\ nextPk = 1
    /\ pc = [t \in Txns |-> "idle"]
    /\ op = [t \in Txns |-> "none"]
    /\ inst = [t \in Txns |-> {}]
    /\ old = [t \in Txns |-> {}]
    /\ wItem = [t \in Txns |-> EmptyFn]
    /\ wPut = [t \in Txns |-> EmptyFn]
    /\ wDel = [t \in Txns |-> {}]
    /\ lockI = [t \in Txns |-> {}]
    /\ lockP = [t \in Txns |-> {}]
    /\ itemRead = [t \in Txns |-> {}]
    /\ delta = [t \in Txns |-> ZeroDelta]
    /\ result = [t \in Txns |-> NoOutcome]
    /\ dirty = [t \in Txns |-> FALSE]
    /\ applied = ZeroDelta
    /\ extern = ZeroDelta
    /\ ops = 0
    /\ sales = <<>>
    /\ deliveries = EmptyFn
    /\ details = <<>>
    /\ dash = NotComputed
    /\ nextDeliveryId = 1
    /\ itemRows = Items
    /\ resp = NoResponse

\* purchase transactions on that installation
OpeningSpec == OpeningInit /\ [][PNext]_vars

\* the stock after Purchase(item="A", quantity=MaxQty, price=MaxPrice).save()
\* on a fresh installation
StockedInit ==
    /\ itemQty = [i \in Items |-> IF i = "A" THEN InitStock + MaxQty
                                  ELSE InitStock]
    /\ purchases = [p \in {1} |-> [item |-> "A", quantity |-> MaxQty,
                                   price |-> MaxPrice,
                                   total_value |-> MaxPrice * MaxQty]]
    /\ nextPk = 2
    /\ pc = [t \in Txns |-> "idle"]
    /\ op = [t \in Txns |-> IF t = "t1" THEN "create" ELSE "none"]
    /\ inst = [t \in Txns |->
                  IF t = "t1"
                  THEN {[pk |-> Some(1), item |-> "A",
                         quantity |-> Some(MaxQty), price |-> Some(MaxPrice),
                         total_value |-> MaxPrice * MaxQty]}
                  ELSE {}]
    /\ old = [t \in Txns |-> {}]
    /\ wItem = [t \in Txns |-> EmptyFn]
    /\ wPut = [t \in Txns |-> EmptyFn]
    /\ wDel = [t \in Txns |-> {}]
    /\ lockI = [t \in Txns |-> {}]
    /\ lockP = [t \in Txns |-> {}]
    /\ itemRead = [t \in Txns |-> {}]
    /\ delta = [t \in Txns |-> ZeroDelta]
    /\ result = [t \in Txns |-> IF t = "t1" THEN Outcome("ok", "commit")
                                 ELSE NoOutcome]
    /\ dirty = [t \in Txns |-> FALSE]
    /\ applied = [i \in Items |-> IF i = "A" THEN MaxQty ELSE 0]
    /\ extern = ZeroDelta
    /\ ops = 1
    /\ sales = <<>>
    /\ deliveries = EmptyFn
    /\ details = <<>>
    /\ dash = NotComputed
    /\ nextDeliveryId = 1
    /\ itemRows = Items
    /\ resp = NoResponse

\* dashboard requests over the recorded sales and deliveries, with the stock
\* of one committed purchase
DashSpec == StockedInit /\ [][DNext]_vars

\* dashboard requests that list the recent sales
RecentSpec == StockedInit /\ [][RNext]_vars

\* requests to the store views on the same installation
ViewSpec == StockedInit /\ [][VNext]_vars

\* a fresh installation with one recorded sale
ClassifyInit ==
    /\ itemQty = [i \in Items |-> InitStock]
    /\ purchases = EmptyFn
    /\ nextPk = 1
    /\ pc = [t \in Txns |-> "idle"]
    /\ op = [t \in Txns |-> "none"]
    /\ inst = [t \in Txns |-> {}]
    /\ old = [t \in Txns |-> {}]
    /\ wItem = [t \in Txns |-> EmptyFn]
    /\ wPut = [t \in Txns |-> EmptyFn]
    /\ wDel = [t \in Txns |-> {}]
    /\ lockI = [t \in Txns |-> {}]
    /\ lockP = [t \in Txns |-> {}]
    /\ itemRead = [t \in Txns |-> {}]
    /\ delta = [t \in Txns |-> ZeroDelta]
    /\ result = [t \in Txns |-> NoOutcome]
    /\ dirty = [t \in Txns |-> FALSE]
    /\ applied = ZeroDelta
    /\ extern = ZeroDelta
    /\ ops = 0
    /\ sales \in {<<r>> : r \in FullSaleRows}
    /\ deliveries = EmptyFn
    /\ details = <<>>
    /\ dash = NotComputed
    /\ nextDeliveryId = 1
    /\ itemRows = Items
    /\ resp = NoResponse

\* the paid-sale classification over the Sale models it provides for
ClassifySpec == ClassifyInit /\ [][CNext]_vars

\* ------------------------------------------------------ properties: stock
RECURSIVE SumQty(_, _)
SumQty(S, i) ==
    IF S = {} THEN 0
    ELSE LET p == CHOOSE x \in S : TRUE
         IN  (IF purchases[p].item = i THEN purchases[p].quantity ELSE 0)
             + SumQty(S \ {p}, i)

\* the stored quantities of the existing purchases that reference item i
PurchaseSum(i) == SumQty(DOMAIN purchases, i)

NoItemEdits == \A i \in Items : extern[i] = 0

Failed(t) == result[t].status \notin {"none", "ok"}
IsSave(t) == op[t] \in {"create", "update"}

\* C1: with no stock change other than purchase operations, every committed
\* state has each item's quantity equal to its initial quantity plus the sum
\* of the stored quantities of the existing purchases that reference it.
C1_StockEqualsPurchases ==
    NoItemEdits => \A i \in Items : itemQty[i] = InitStock + PurchaseSum(i)

\* C2: a delete that would take the item below zero is rejected with an
\* error and changes neither the Purchase rows nor any Item quantity; a
\* delete that commits leaves its item at zero or above; a delete that
\* fails for any reason changes no committed row.
C2_DeleteNeverNegative ==
    [][\A t \in Txns :
        /\ (pc[t] = "del_lock" /\ pc'[t] # "del_lock"
              /\ itemQty[Inst(t).item] - OrZero(Inst(t).quantity) < 0)
           => /\ result'[t].status = "ValueError"
              /\ pc'[t] = "idle"
              /\ purchases' = purchases
              /\ itemQty' = itemQty
        /\ (op[t] = "delete" /\ pc[t] = "commit" /\ pc'[t] = "idle")
           => itemQty'[Inst(t).item] >= 0
        /\ (op[t] = "delete" /\ pc[t] # "idle" /\ pc'[t] = "idle"
              /\ result'[t].status # "ok")
           => (purchases' = purchases /\ itemQty' = itemQty)
    ]_vars

\* a delete was rejected at the floor check while the row exists and another
\* transaction is working on the same item
C2_Witness ==
    \E t \in Txns, u \in Txns :
        /\ t # u
        /\ op[t] = "delete"
        /\ result[t] = Outcome("ValueError", "del_check")
        /\ Inst(t).pk # None
        /\ The(Inst(t).pk) \in DOMAIN purchases
        /\ itemQty[Inst(t).item] < OrZero(Inst(t).quantity)
        /\ pc[u] \notin {"idle", "upd_lock", "del_lock"}
        /\ Inst(t).item \in lockI[u]

Product(price, quantity) ==
    IF price = None \/ quantity = None THEN 0 ELSE The(price) * The(quantity)

\* C3: after a save the instance's total_value is price x quantity with a
\* null price or quantity counted as 0, and every stored row (all rows are
\* written by save) has total_value = price x quantity.
C3_TotalValue ==
    /\ \A t \in Txns :
          inst[t] # {} =>
              Inst(t).total_value = Product(Inst(t).price, Inst(t).quantity)
    /\ \A p \in DOMAIN purchases :
          purchases[p].total_value = purchases[p].price * purchases[p].quantity

\* a successful update stored a row with a non-trivial product, and another
\* save was made with a null quantity
C3_Witness ==
    \E t \in Txns, u \in Txns :
        /\ op[t] = "update" /\ result[t].status = "ok"
        /\ Inst(t).pk # None
        /\ The(Inst(t).pk) \in DOMAIN purchases
        /\ purchases[The(Inst(t).pk)].quantity = MaxQty
        /\ purchases[The(Inst(t).pk)].total_value = MaxQty * MaxPrice
        /\ inst[u] # {} /\ IsSave(u)
        /\ Inst(u).quantity = None /\ Inst(u).total_value = 0

\* the commit of an update that moved the purchase from item a to item b
ReassignCommit(t, a, b) ==
    /\ op[t] = "update" /\ pc[t] = "commit" /\ pc'[t] = "idle"
    /\ old[t] # {}
    /\ a = Old(t).item /\ b = Inst(t).item /\ a # b

C5_QuantityNonNegative == \A i \in Items : itemQty[i] >= 0

\* C6: no stock adjustment is lost: each item's quantity is its starting
\* quantity, less what item edits removed, plus the sum of the deltas of
\* the committed purchase transactions.
C6_NoLostUpdate ==
    \A i \in Items : itemQty[i] = InitStock - extern[i] + applied[i]

\* a transaction holds an item's row with a pending adjustment while another
\* waits to adjust the same item, after an earlier committed adjustment
C6_Witness ==
    \E t \in Txns, u \in Txns, i \in Items :
        /\ t # u
        /\ i \in DOMAIN wItem[t]
        /\ i \in NeedsItem(u)
        /\ applied[i] # 0

\* C7: a save that fails has changed no committed Purchase row and no Item
\* quantity: nothing of it was committed before the failure, and the failing
\* step itself changes nothing.
C7_SaveAllOrNothing ==
    /\ [](\A t \in Txns : (IsSave(t) /\ Failed(t)) => ~dirty[t])
    /\ [][\A t \in Txns :
            (IsSave(t) /\ pc[t] # "idle" /\ pc'[t] = "idle"
                /\ result'[t].status # "ok")
            => (purchases' = purchases /\ itemQty' = itemQty)
       ]_vars

\* a reassignment failed at the persist step, after the debit of the old
\* item: the stored row still names the old item with a positive quantity
C7_Witness ==
    \E t \in Txns :
        /\ op[t] = "update"
        /\ result[t] = Outcome("IntegrityError", "persist")
        /\ The(Inst(t).pk) \in DOMAIN purchases
        /\ purchases[The(Inst(t).pk)].item # Inst(t).item
        /\ purchases[The(Inst(t).pk)].quantity > 0
        /\ itemQty[purchases[The(Inst(t).pk)].item]
              = InitStock + purchases[The(Inst(t).pk)].quantity

\* ------------------------------------------------------ properties: dashboard
AmountPaid == [k \in SaleIds |-> sales[k].amount_paid]
YearMonth(k) == <<sales[k].date_added[1], sales[k].date_added[2]>>
SalesOfMonth(ym) == {k \in SaleIds : YearMonth(k) = ym}
MonthBefore(x, y) == x[1] < y[1] \/ (x[1] = y[1] /\ x[2] < y[2])

\* C8: Sale has an amount_paid field, and the total_revenue of a rendered
\* dashboard is the sum of amount_paid over all Sale rows (0 without sales).
C8_RevenueIsAmountPaid ==
    dash.status = "ok" =>
        /\ "amount_paid" \in SaleFieldNames
        /\ dash.revenue = SumOver(SaleIds, AmountPaid)

\* a dashboard over an unpaid and a partly paid sale
C8_Witness ==
    /\ dash.status = "ok"
    /\ \E j, k \in SaleIds :
          /\ sales[j].amount_paid = 0
          /\ sales[k].amount_paid > 0
          /\ sales[k].amount_paid < sales[k].grand_total
    /\ dash.revenue > 0
    /\ dash.revenue < SumOver(SaleIds, [k \in SaleIds |-> sales[k].grand_total])

\* C9: sales_dates, sales_values and sales_counts have the same length, with
\* exactly one entry per calendar month that has a sale, months ascending;
\* the i-th value and count are the revenue (amount_paid) and the number of
\* the sales of the i-th month.
C9_MonthlySeries ==
    dash.status = "ok" =>
        LET D == dash.sales_series.sales_dates
            V == dash.sales_series.sales_values
            C == dash.sales_series.sales_counts
        IN  /\ Len(D) = Len(V) /\ Len(V) = Len(C)
            /\ {D[n] : n \in 1..Len(D)} = {YearMonth(k) : k \in SaleIds}
            /\ \A a, b \in 1..Len(D) : a < b => MonthBefore(D[a], D[b])
            /\ \A n \in 1..Len(D) :
                  /\ C[n] = Cardinality(SalesOfMonth(D[n]))
                  /\ V[n] = SumOver(SalesOfMonth(D[n]), AmountPaid)

\* a dashboard over two months, the first of which has only an unpaid sale
C9_Witness ==
    /\ dash.status = "ok"
    /\ Len(sales) = 2
    /\ sales[1].amount_paid = 0
    /\ YearMonth(1) # YearMonth(2)
    /\ Len(dash.sales_series.sales_dates) = 2
    /\ dash.sales_series.sales_counts = <<1, 1>>

\* C10: a fault in one aggregate leaves a rendered summary in which that
\* aggregate is empty or zero and every other aggregate has its normal value.
C10_FaultIsolated ==
    dash.status # "none" =>
        /\ dash.status = "ok"
        /\ dash.revenue = IF dash.fault = "revenue" THEN 0
                          ELSE TotalRevenueVal(SaleFieldNames)
        /\ dash.fault # "sales_series" =>
              dash.sales_series = SalesSeries(SaleFieldNames)
        /\ dash.fault # "delivery_counts" =>
              dash.delivery_counts = DeliveryCounts
        /\ dash.fault # "delivery_series" =>
              dash.delivery_series = DeliverySeries
        /\ dash.recent_sales \in
              (IF dash.fault = "recent_sales" THEN {<<>>}
               ELSE RecentSales(SaleFieldNames))
        /\ dash.recent_deliveries \in
              (IF dash.fault = "recent_deliveries" THEN {<<>>}
               ELSE RecentDeliveries)
        /\ dash.top_items \in
              (IF dash.fault = "top_items" THEN {<<>>}
               ELSE TopItems(SaleFieldNames))
        /\ dash.inventory_cost = IF dash.fault = "inventory_cost" THEN 0
                                 ELSE InventoryCost(ItemFieldNames)
        /\ dash.purchase_cost = IF dash.fault = "purchase_cost" THEN 0
                                ELSE PurchaseCost

\* ------------------------------------------------------ properties: views
StoredRowsUnchanged ==
    UNCHANGED <<itemRows, itemQty, purchases, deliveries, sales, details>>

\* C11: an operation that names an item or a purchase without a stored row
\* ends in a not-found outcome and changes no stored row: delete_item_ajax
\* answers 404 'Item not found', Purchase.save on a pk without a row and
\* Purchase.delete on a missing item raise DoesNotExist.
C11_NotFoundNoEffect ==
    [][/\ \A c \in Callers, i \in Items :
              (/\ DeleteItemAjax(c, Some(i))
               /\ c.is_authenticated /\ c.is_staff
               /\ i \notin itemRows)
              => /\ resp'.status = 404
                 /\ resp'.error = "Item not found"
                 /\ StoredRowsUnchanged
       /\ \A t \in Txns :
              (UpdLock(t) /\ The(Inst(t).pk) \notin DOMAIN purchases)
              => /\ result'[t].status = "DoesNotExist"
                 /\ pc'[t] = "idle"
                 /\ StoredRowsUnchanged
       /\ \A t \in Txns :
              (DelRead(t) /\ Inst(t).item \notin itemRows)
              => /\ result'[t].status = "DoesNotExist"
                 /\ pc'[t] = "idle"
                 /\ StoredRowsUnchanged
    ]_vars

\* the caller passes an elevated-caller check of the store: staff or superuser
Elevated(c) == c.is_authenticated /\ (c.is_staff \/ c.is_superuser)

\* C12: an update or delete of an Item or a Delivery through
\* ProductUpdateView, ProductDeleteView, DeliveryUpdateView,
\* DeliveryDeleteView or delete_item_ajax takes effect only for an elevated
\* caller, and delete_item_ajax answers an anonymous or non-staff caller
\* with a permission-denied response and deletes no item.
C12_ElevatedOnly ==
    [][/\ (\/ itemRows' # itemRows
           \/ extern' # extern
           \/ /\ deliveries' # deliveries
              /\ resp'.view \in {"DeliveryUpdateView", "DeliveryDeleteView"})
          => Elevated(resp'.caller)
       /\ \A c \in Callers, i \in Opt(Items) :
              (DeleteItemAjax(c, i) /\ (~c.is_authenticated \/ ~c.is_staff))
              => /\ resp'.status = 403
                 /\ resp'.error = "Permission denied"
                 /\ StoredRowsUnchanged
    ]_vars

\* ------------------------------------------------------ properties: saves
SaveCommits(t, o) ==
    /\ op[t] = o /\ pc[t] = "commit" /\ pc'[t] = "idle"
    /\ result'[t].status = "ok"

\* the save of t leaves the stored item and quantity of its purchase as
\* they are
Resave(t) ==
    /\ old[t] # {}
    /\ Old(t).item = Inst(t).item
    /\ Old(t).quantity = NewQty(t)

\* C13: the commit of a create adds the purchase's quantity to its item,
\* once, and changes no other item; the commit of a save that leaves the
\* stored item and quantity unchanged changes no item's quantity, however
\* often it is repeated.
C13_CreateOnceSaveIdempotent ==
    [][\A t \in Txns :
        /\ SaveCommits(t, "create")
           => itemQty' = [itemQty EXCEPT ![Inst(t).item] = @ + NewQty(t)]
        /\ (SaveCommits(t, "update") /\ Resave(t))
           => itemQty' = itemQty
    ]_vars

\* a purchase with a positive quantity was created and saved again
\* unchanged, and a second unchanged save of it is about to commit
C13_Witness ==
    \E t \in Txns :
        /\ op[t] = "update" /\ pc[t] = "commit"
        /\ Resave(t)
        /\ NewQty(t) > 0
        /\ ops = MaxOps
        /\ nextPk = 2
        /\ \A u \in Txns : u # t => pc[u] = "idle"
        /\ applied[Inst(t).item] = NewQty(t)
        /\ itemQty[Inst(t).item] = InitStock + NewQty(t)

\* the stock a stored purchase row accounts for on item i
Effect(row, i) == IF row.item = i THEN row.quantity ELSE 0

\* t is inside an update and has read the old row
HasOld(t) == op[t] = "update" /\ old[t] # {}

\* C14: an update reads the old row from storage under the row lock: while
\* it works, the old state it computes with is the stored row and it holds
\* the row's lock, no two updates of one purchase hold an old state at the
\* same time, and the commit of an update changes each item by the effect
\* of the row it stores minus the effect of the row stored before.
C14_OldStateUnderLock ==
    /\ [](\A t \in Txns :
            HasOld(t) =>
                /\ The(Inst(t).pk) \in lockP[t]
                /\ The(Inst(t).pk) \in DOMAIN purchases
                /\ Old(t) = purchases[The(Inst(t).pk)])
    /\ [](\A t \in Txns, u \in Txns :
            (t # u /\ HasOld(t) /\ HasOld(u)) => Inst(t).pk # Inst(u).pk)
    /\ [][\A t \in Txns :
            SaveCommits(t, "update") =>
                \A i \in Items :
                    itemQty'[i] - itemQty[i] =
                        Effect(purchases'[The(Inst(t).pk)], i)
                        - Effect(purchases[The(Inst(t).pk)], i)
       ]_vars

\* an update that changes the stored quantity holds the purchase's lock
\* while a second update of the same purchase, whose instance was loaded
\* from the row the first is changing, waits to read it
C14_Witness ==
    \E t \in Txns, u \in Txns :
        /\ t # u
        /\ HasOld(t) /\ pc[t] = "commit"
        /\ NewQty(t) # Old(t).quantity
        /\ op[u] = "update" /\ pc[u] = "upd_lock"
        /\ Inst(u).pk = Inst(t).pk
        /\ NewQty(u) # NewQty(t)

\* ------------------------------------------------------ properties: paid sales
\* str.lower() on the status values
Lower(st) ==
    CASE st \in {"paid", "PAID", "Paid"} -> "paid"
      [] st \in {"completed", "COMPLETED", "Completed"} -> "completed"
      [] OTHER -> st

\* the classification signals in priority order, each with the fields it
\* needs and the sales it classifies as paid
Signals ==
    <<[needs |-> {"is_paid"},
       paid |-> {k \in SaleIds : sales[k].is_paid}],
      [needs |-> {"is_fully_paid"},
       paid |-> {k \in SaleIds : sales[k].is_fully_paid}],
      [needs |-> {"payment_status"},
       paid |-> {k \in SaleIds :
                   Lower(sales[k].payment_status) \in {"paid", "completed"}}],
      [needs |-> {"amount_paid", "grand_total"},
       paid |-> {k \in SaleIds : sales[k].amount_paid >= sales[k].grand_total}],
      [needs |-> {"paid_amount", "grand_total"},
       paid |-> {k \in SaleIds : sales[k].paid_amount >= sales[k].grand_total}],
      [needs |-> {"balance_due"},
       paid |-> {k \in SaleIds : sales[k].balance_due <= 0}],
      [needs |-> {}, paid |-> SaleIds]>>

FirstSignal(fields) ==
    CHOOSE n \in 1..Len(Signals) :
        /\ Signals[n].needs \subseteq fields
        /\ \A m \in 1..(n - 1) : ~(Signals[m].needs \subseteq fields)

\* C15: the paid sales are those the first available signal selects, in the
\* order is_paid, is_fully_paid, payment_status, payment field >=
\* grand_total, balance_due <= 0, else all sales; under payment_status a
\* sale is paid exactly when its status is 'paid' or 'completed' in any
\* letter case.
C15_PaidClassification ==
    dash.status = "classified" =>
        dash.paid = Signals[FirstSignal(dash.fields)].paid

\* ------------------------------------------------------ properties: recent sales
Min(a, b) == IF a <= b THEN a ELSE b

\* the label the summary is to show for sale k
LabelOf(k) ==
    LET c == sales[k].customer
        name == Strip(Strip(c.first_name) \o <<" ">> \o Strip(c.last_name))
    IN  IF name # <<>> THEN name
        ELSE IF c.phone # <<>> THEN c.phone
        ELSE <<"Sale #", k>>

\* C16: recent_sales lists the 10 most recent sales (all of them when there
\* are fewer) by date_added, newest first, and each entry has balance_due =
\* grand_total - paid amount and as customer_label the customer's name if
\* any, else the phone, else 'Sale #<id>'.
C16_RecentSales ==
    dash.status = "ok" =>
        LET R == dash.recent_sales
            listed == {R[n].id : n \in 1..Len(R)}
        IN  /\ Len(R) = Min(RecentLimit, Len(sales))
            /\ listed \subseteq SaleIds
            /\ Cardinality(listed) = Len(R)
            /\ \A a, b \in 1..Len(R) :
                  a < b => DateLeq(sales[R[b].id].date_added,
                                   sales[R[a].id].date_added)
            /\ \A k \in SaleIds \ listed, n \in 1..Len(R) :
                  DateLeq(sales[k].date_added, sales[R[n].id].date_added)
            /\ \A n \in 1..Len(R) :
                  /\ R[n].balance_due =
                        sales[R[n].id].grand_total - sales[R[n].id].amount_paid
                  /\ R[n].customer_label = LabelOf(R[n].id)

\* ------------------------------------------------------ properties: locks
\* C17: concurrent purchase transactions never deadlock: no state is
\* reached in which each of two transactions waits for a row lock the other
\* holds (the progress of every started transaction rests on this).
C17_NoDeadlock == \A t \in Txns : ~Deadlocked(t)

\* C18: a purchase's quantity is subtracted from stock at most once: a
\* delete that finds the Purchase row already deleted, and so deletes no
\* row, commits without changing any item's quantity.
C18_SubtractedOnce ==
    [][\A t \in Txns :
        (/\ op[t] = "delete" /\ pc[t] = "commit" /\ pc'[t] = "idle"
         /\ wDel[t] = {})
        => itemQty' = itemQty
    ]_vars

====
